---- MODULE Spec2Model ----
(***************************************************************************)
(* A model of the collage-bop trackers:                                   *)
(*   "collage" : src/src/collage_tracker.py        (OptimizedTracker)      *)
(*   "scrap"   : src/scrap_bin/design_history_tracker.py (OptimizedTracker *)
(*               with motion skipping and prediction)                      *)
(*   "simple"  : src/src/design_history_tracker.py (SimplifiedTracker)     *)
(*                                                                         *)
(* Units.  Positions are integers in 0.001 detector units, rotations are   *)
(* integers in 0.1 degree, times are integers in milliseconds.  Values the *)
(* code computes by division (velocities, predicted positions) are exact   *)
(* rationals <<n, d>> with d > 0 in lowest terms.                          *)
(***************************************************************************)
EXTENDS Integers, Sequences, FiniteSets, TLC

(***************************************************************************)
(* Bounds of the model.                                                    *)
(***************************************************************************)
\* results the orchestrator processes in the gate specification
MaxCycles == 3
\* frames the video source delivers in the pipeline specification
MaxFrames == 3
\* results processed in the registry specification
MaxRegCycles == 2
\* length of the run of empty snapshots in the disappearance scenario
EmptyRunLen == 10
\* websockets that connect in the stop specification
MaxStopSockets == 2
\* frames the source delivers in the motion-skip specification
MaxMotionFrames == 6
\* snapshots of a constant-velocity run
MaxLinearCycles == 5
\* frames the video source delivers beyond the capacity of result_queue in
\* the result-queue specification
MaxOverfill == 1

(***************************************************************************)
(* Program constants.                                                      *)
(***************************************************************************)
FrameQueueMaxCollage == 2
FrameQueueMaxScrap == 1
ResultQueueMaxCollage == 10
ResultQueueMaxScrap == 5
max_frame_skip == 2
motion_threshold == 2000
HistPosCollage == 15
HistRotCollage == 20
BcastPosCollage == 5
BcastRotCollage == 5
HistPosScrap == 15
HistRotScrap == 20
BcastPosScrap == 3
BcastRotScrap == 3
HistPosSimple == 10
HistRotSimple == 10
\* getattr(self, 'last_update_time', current_time - 0.033)
DefaultDt == 33
\* dt < 0.1
MaxPredictionDt == 100
\* prediction_time = 0.02
PredictionTime == 20
\* prediction_alpha = 0.3, as tenths
PredictionAlphaTenths == 3

Variants == {"collage", "scrap", "simple"}
Threaded == {"collage", "scrap"}

(***************************************************************************)
(* Exact rational arithmetic for the float computations of the code.       *)
(***************************************************************************)
Abs(n) == IF n < 0 THEN -n ELSE n

RECURSIVE GCD(_, _)
GCD(a, b) == IF b = 0 THEN a ELSE GCD(b, a % b)

Q(n, d) ==
    LET g == GCD(Abs(n), d)
    IN  IF n = 0 THEN <<0, 1>> ELSE <<n \div g, d \div g>>

QInt(n) == <<n, 1>>

QAdd(a, b) ==
    LET g == GCD(a[2], b[2])
        l == (a[2] \div g) * b[2]
    IN  Q(a[1] * (l \div a[2]) + b[1] * (l \div b[2]), l)

QNeg(a) == <<-a[1], a[2]>>

QSub(a, b) == QAdd(a, QNeg(b))

QAbs(a) == <<Abs(a[1]), a[2]>>

\* a * (n / d), cancelling before multiplying
QScale(a, n, d) ==
    LET g1 == GCD(Abs(a[1]), d)
        g2 == GCD(Abs(n), a[2])
    IN  IF a[1] = 0 \/ n = 0 THEN <<0, 1>>
        ELSE Q((a[1] \div g1) * (n \div g2), (a[2] \div g2) * (d \div g1))

\* a > n for an integer n
QGtInt(a, n) == a[1] > n * a[2]

(***************************************************************************)
(* Snapshots: a markers dict maps entity ids to poses.                     *)
(***************************************************************************)
Ids == {7, 8}

Pose(px, py, pz, rz) ==
    [position |-> [x |-> px, y |-> py, z |-> pz],
     rotation |-> [x |-> 0, y |-> 0, z |-> rz]]

\* markers with rational positions (what the broadcast gate and payload see)
QPose(p) ==
    [position |-> [k \in {"x", "y", "z"} |-> QInt(p.position[k])],
     rotation |-> p.rotation]

QMarkers(markers) == [id \in DOMAIN markers |-> QPose(markers[id])]

EmptyMarkers == [id \in {} |-> Pose(0, 0, 0, 0)]

(***************************************************************************)
(* The change gates.                                                       *)
(***************************************************************************)
\* a pos_change that forgets the z axis
pos_change_xy(data, last) ==
    QAdd(QAbs(QSub(data.position.x, QInt(last.position.x))),
         QAbs(QSub(data.position.y, QInt(last.position.y))))

\* sum(abs(data['position'][k] - last['position'][k]) for k in ['x','y','z'])
pos_change(data, last) ==
    QAdd(QAdd(QAbs(QSub(data.position.x, QInt(last.position.x))),
              QAbs(QSub(data.position.y, QInt(last.position.y)))),
         QAbs(QSub(data.position.z, QInt(last.position.z))))

\* sum(abs(data['rotation'][k] - last['rotation'][k]) for k in ['x','y','z'])
rot_change(data, last) ==
    Abs(data.rotation.x - last.rotation.x)
    + Abs(data.rotation.y - last.rotation.y)
    + Abs(data.rotation.z - last.rotation.z)

\* a gate that does not compare the two lengths first
gate_no_count(markers, ref, pos_th, rot_th) ==
    \E id \in DOMAIN markers :
        \/ id \notin DOMAIN ref
        \/ /\ id \in DOMAIN ref
           /\ \/ QGtInt(pos_change(markers[id], ref[id]), pos_th)
              \/ rot_change(markers[id], ref[id]) > rot_th

\* a gate that passes only when every entity moved
gate_all_moved(markers, ref, pos_th, rot_th) ==
    /\ DOMAIN markers # {}
    /\ \A id \in DOMAIN markers :
          \/ id \notin DOMAIN ref
          \/ QGtInt(pos_change(markers[id], ref[id]), pos_th)
          \/ rot_change(markers[id], ref[id]) > rot_th

\* `for marker_id, data in markers.items()` over the ids not yet visited:
\* return True at the first id that is new or moved, False after the last
RECURSIVE gate_loop(_, _, _, _, _)
gate_loop(todo, markers, ref, pos_th, rot_th) ==
    IF todo = {} THEN FALSE
    ELSE LET id == CHOOSE i \in todo : TRUE
         IN  IF id \notin DOMAIN ref THEN TRUE
             ELSE IF \/ QGtInt(pos_change(markers[id], ref[id]), pos_th)
                     \/ rot_change(markers[id], ref[id]) > rot_th
                  THEN TRUE
                  ELSE gate_loop(todo \ {id}, markers, ref, pos_th, rot_th)

\* the body shared by should_update_history and should_broadcast: markers has
\* rational positions, ref is self.last_states
gate(markers, ref, pos_th, rot_th) ==
    IF Cardinality(DOMAIN markers) # Cardinality(DOMAIN ref) THEN TRUE
    ELSE gate_loop(DOMAIN markers, markers, ref, pos_th, rot_th)

HistPos(v) ==
    CASE v = "collage" -> HistPosCollage
      [] v = "scrap" -> HistPosScrap
      [] OTHER -> HistPosSimple

HistRot(v) ==
    CASE v = "collage" -> HistRotCollage
      [] v = "scrap" -> HistRotScrap
      [] OTHER -> HistRotSimple

BcastPos(v) == IF v = "scrap" THEN BcastPosScrap ELSE BcastPosCollage

BcastRot(v) == IF v = "scrap" THEN BcastRotScrap ELSE BcastRotCollage

should_update_history(v, markers, ref) ==
    gate(QMarkers(markers), ref, HistPos(v), HistRot(v))

\* a broadcast gate coarser than the history gate
should_broadcast_coarse(v, qmarkers, ref) ==
    gate(qmarkers, ref, 2 * HistPos(v), 2 * HistRot(v))

\* qmarkers: the raw markers (collage) or the predicted markers (scrap)
should_broadcast(v, qmarkers, ref) ==
    gate(qmarkers, ref, BcastPos(v), BcastRot(v))

(***************************************************************************)
(* The predictive smoother.                                                *)
(***************************************************************************)
\* velocity = (data - last_data) / dt, per axis
instant_velocity(data, last_data, dt) ==
    [k \in {"x", "y", "z"} |->
        Q(data.position[k] - last_data.position[k], dt)]

\* old_vel * (1 - alpha) + velocity * alpha, per axis
smooth_velocity(old_vel, velocity) ==
    [k \in {"x", "y", "z"} |->
        QAdd(QScale(old_vel[k], 10 - PredictionAlphaTenths, 10),
             QScale(velocity[k], PredictionAlphaTenths, 10))]

\* the velocity stored for one marker that takes the prediction branch
new_velocity(id, data, last_data, vel, dt) ==
    IF id \in DOMAIN vel
    THEN smooth_velocity(vel[id], instant_velocity(data, last_data, dt))
    ELSE instant_velocity(data, last_data, dt)

\* a prediction branch taken whatever dt is
predicts_any_dt(id, last, dt) == id \in DOMAIN last

\* which markers take the prediction branch
predicts(id, last, dt) == id \in DOMAIN last /\ dt > 0 /\ dt < MaxPredictionDt

\* {**data, 'position': data.position + velocity * prediction_time}
predicted_pose(data, velocity) ==
    [position |-> [k \in {"x", "y", "z"} |->
                     QAdd(QInt(data.position[k]),
                          QScale(velocity[k], PredictionTime, 1))],
     rotation |-> data.rotation]

\* returns the predicted markers and the updated self.marker_velocities
predict_marker_positions(markers, last, vel, dt) ==
    LET hit == {id \in DOMAIN markers : predicts(id, last, dt)}
        nv == [id \in hit |-> new_velocity(id, markers[id], last[id], vel, dt)]
    IN  [pred |-> [id \in DOMAIN markers |->
                     IF id \in hit THEN predicted_pose(markers[id], nv[id])
                     ELSE QPose(markers[id])],
         vel  |-> [id \in (DOMAIN vel) \cup hit |->
                     IF id \in hit THEN nv[id] ELSE vel[id]]]

(***************************************************************************)
(* The history recorder.                                                   *)
(***************************************************************************)
\* the configurations load_config can leave in self.config: the built-in
\* fallback of the threaded trackers, or the contents of marker_config.json
BuiltinConfig == [markers |-> [s \in {} |-> "none"], default |-> "builtin"]

FileConfig == [markers |-> [s \in {"7"} |-> "cfg7"], default |-> "filedefault"]

\* a marker_config.json that loads (it has 'markers') but has no 'default'
FileConfigNoDefault == [markers |-> [s \in {"7"} |-> "cfg7"]]

\* self.config was never assigned: SimplifiedTracker.load_config failed
NoConfig == [none |-> TRUE]

\* a marker_config.json that is missing, unreadable, not JSON or without
\* 'markers': load_config ends in its except clause
BadFile == [bad |-> TRUE]

\* load_config(config_file), old being self.config before the call: the
\* except clause assigns the built-in default in the threaded trackers and
\* calls exit(1) in SimplifiedTracker
load_config(v, old, file) ==
    IF file = BadFile
    THEN IF v = "simple" THEN [exit |-> TRUE, config |-> old]
         ELSE [exit |-> FALSE, config |-> BuiltinConfig]
    ELSE [exit |-> FALSE, config |-> file]

\* self.config['markers'].get(marker_id_str, self.config['default'])
marker_config(cfg, id_str) ==
    IF id_str \in DOMAIN cfg.markers THEN cfg.markers[id_str] ELSE cfg.default

\* a recorder that writes a pose moved ahead along z
history_data_ahead(markers, last, id) ==
    LET d == IF id \in DOMAIN markers THEN markers[id]
             ELSE IF id \in DOMAIN last THEN last[id]
             ELSE Pose(0, 0, 0, 0)
    IN  [d EXCEPT !.position.z = @ + 1]

\* a recorder that writes the zero pose for an entity absent from markers
history_data_no_last(markers, last, id) ==
    IF id \in DOMAIN markers THEN markers[id] ELSE Pose(0, 0, 0, 0)

\* markers.get(marker_id, self.last_states.get(marker_id, zero pose))
history_data(markers, last, id) ==
    IF id \in DOMAIN markers THEN markers[id]
    ELSE IF id \in DOMAIN last THEN last[id]
    ELSE Pose(0, 0, 0, 0)

history_entry(cfg, id, data) ==
    [config |-> marker_config(cfg, ToString(id)),
     posrot |-> [x |-> data.position.x, y |-> data.position.y,
                 z |-> data.position.z, rx |-> data.rotation.x,
                 ry |-> data.rotation.y, rz |-> data.rotation.z]]

\* the key under which update_history stores this invocation's entries
history_key(fc) == ToString(fc)

\* the design_history left by update_history(markers); the caller advances
\* frame_count by next_frame_count
update_history(markers, last, hist, fc, cfg) ==
    LET all_ids == (DOMAIN markers) \cup (DOMAIN last)
        keys == {ToString(id) : id \in all_ids}
        idOf(s) == CHOOSE id \in all_ids : ToString(id) = s
        old(s) == IF s \in DOMAIN hist THEN hist[s] ELSE [k \in {} |-> 0]
    IN  [s \in (DOMAIN hist) \cup keys |->
            IF s \in keys
            THEN (history_key(fc) :> history_entry(cfg, idOf(s),
                                     history_data(markers, last, idOf(s))))
                 @@ old(s)
            ELSE hist[s]]

\* update_history raises KeyError: the second argument of
\* self.config['markers'].get(marker_id_str, self.config['default']) is
\* evaluated for the first id of the loop, whatever the id
update_history_raises(markers, last, cfg) ==
    /\ (DOMAIN markers) \cup (DOMAIN last) # {}
    /\ "default" \notin DOMAIN cfg

\* the design_history such a raise can leave: the first id of the loop (any
\* id, the order of a set is not fixed) got its empty dict if it had none
update_history_partial(markers, last, hist) ==
    {[s \in (DOMAIN hist) \cup {ToString(id)} |->
        IF s \in DOMAIN hist THEN hist[s] ELSE [k \in {} |-> 0]] :
     id \in (DOMAIN markers) \cup (DOMAIN last)}

\* a recorder that forgets to advance frame_count
next_frame_count_stuck(fc) == fc

\* self.frame_count += 1
next_frame_count(fc) == fc + 1

(***************************************************************************)
(* State.                                                                  *)
(***************************************************************************)
VARIABLES
    variant,                \* which tracker runs
    config,                 \* self.config
    running,                \* self.running
    nread,                  \* frames cap.read has returned so far
    capReleased,            \* cap.release() has been called
    cpc,                    \* capture_thread: position
    cap_frame_count,        \* capture_thread: its local frame_count (scrap)
    frame_skip_counter,     \* self.frame_skip_counter (scrap)
    last_gray,              \* self.last_gray is not None (scrap)
    cframe,                 \* capture_thread: the frame it holds
    frame_queue,            \* self.frame_queue
    ppc,                    \* process_thread: position
    pres,                   \* process_thread: the result it is about to put
    result_queue,           \* self.result_queue
    mpc,                    \* main_loop / run: position
    cur,                    \* main_loop: markers of the cycle in progress
    mainExc,                \* the exception that ended main_loop, or "none"
    exports,                \* the export_history calls so far
    last_states,            \* self.last_states
    design_history,         \* self.design_history
    frame_count,            \* self.frame_count
    marker_velocities,      \* self.marker_velocities (scrap)
    has_last_update_time,   \* self.last_update_time is set (scrap)
    clients,                \* self.clients
    sock,                   \* each websocket's handle_client task
    bcCur,                  \* broadcast: the client whose send is in flight
    bcLeft,                 \* broadcast: clients the iteration has yet to yield
    bcSize,                 \* broadcast: len(clients) when the iterator was made
    bcDirty,                \* clients was mutated since the iterator last moved
    disconnected,           \* broadcast: its local list disconnected
    \* history variables (not program state)
    cycles,                 \* results dequeued by main_loop / frames run handled
    nrec,                   \* update_history invocations
    lastCyc,                \* what the latest cycle saw and decided
    prevCyc,                \* the same for the cycle before it
    histRef,                \* last raw snapshot that passed the history gate
    bcLog,                  \* the latest broadcast call over a non-empty registry
    lastFwd,                \* seq of the frame capture_thread last put_nowait'ed
    lastDeq                 \* the latest frame_queue.get of process_thread

staticVars == <<variant, config>>
capVars == <<nread, capReleased>>
captureVars == <<cpc, cap_frame_count, frame_skip_counter, last_gray, cframe>>
procVars == <<ppc, pres>>
recVars == <<last_states, design_history, frame_count>>
predVars == <<marker_velocities, has_last_update_time>>
regVars == <<clients, sock>>
iterVars == <<bcCur, bcLeft, bcSize, bcDirty, disconnected>>
cycVars == <<cycles, nrec, lastCyc, prevCyc, histRef>>
qLogVars == <<lastFwd, lastDeq>>
threadVars == <<capVars, captureVars, procVars, frame_queue, qLogVars>>

vars == <<staticVars, running, threadVars, result_queue, mpc, cur, mainExc,
          exports, recVars, predVars, regVars, iterVars, cycVars, bcLog>>

\* the websockets that may connect
MaxSockets == 3
WS == 1..MaxSockets
NoSock == MaxSockets + 1

NoFrame == [seq |-> 0, markers |-> EmptyMarkers]
NoResult == [timestamp |-> 0, markers |-> EmptyMarkers]

NoCycle ==
    [n |-> 0, ts |-> 0, markers |-> EmptyMarkers, dt |-> 0, hist |-> FALSE,
     bcast |-> FALSE, payload |-> EmptyMarkers, ref |-> EmptyMarkers,
     vel |-> [id \in {} |-> 0]]

NoBroadcast ==
    [start |-> {}, delivered |-> {}, failed |-> {}, interfered |-> FALSE,
     finished |-> FALSE, aborted |-> FALSE, after |-> {}]

\* the fields __init__ assigns, but for self.config
InitRest ==
    /\ running = FALSE
    /\ nread = 0
    /\ capReleased = FALSE
    /\ cpc = "idle"
    /\ cap_frame_count = 0
    /\ frame_skip_counter = 0
    /\ last_gray = FALSE
    /\ cframe = NoFrame
    /\ frame_queue = <<>>
    /\ ppc = "idle"
    /\ pres = NoResult
    /\ result_queue = <<>>
    /\ cur = EmptyMarkers
    /\ mainExc = "none"
    /\ exports = <<>>
    /\ last_states = EmptyMarkers
    /\ design_history = [s \in {} |-> 0]
    /\ frame_count = 0
    /\ marker_velocities = [id \in {} |-> 0]
    /\ has_last_update_time = FALSE
    /\ clients = {}
    /\ sock = [w \in WS |-> "none"]
    /\ bcCur = NoSock
    /\ bcLeft = {}
    /\ bcSize = 0
    /\ bcDirty = FALSE
    /\ disconnected = {}
    /\ cycles = 0
    /\ nrec = 0
    /\ lastCyc = NoCycle
    /\ prevCyc = NoCycle
    /\ histRef = EmptyMarkers
    /\ bcLog = NoBroadcast
    /\ lastFwd = 0
    /\ lastDeq = [seq |-> 0, newest |-> 0]

\* the state after construction; cfgs: what load_config may have found (the
\* threaded trackers fall back to BuiltinConfig, SimplifiedTracker exits
\* unless marker_config.json loads)
InitWith(cfgs) ==
    /\ variant \in Variants
    /\ config \in (IF variant = "simple" THEN {FileConfig} ELSE cfgs)
    /\ mpc = IF variant = "simple" THEN "loop" ELSE "init"
    /\ InitRest

Init == InitWith({BuiltinConfig, FileConfig})

\* no marker_config.json next to the threaded trackers
InitNoFile == InitWith({BuiltinConfig})

\* what marker_config.json may be when load_config reads it
ConfigFiles == {BadFile, FileConfig, FileConfigNoDefault}

\* the state after construction, load_config included, or the process ended
\* by the exit(1) of SimplifiedTracker.load_config
InitSession ==
    /\ variant \in Variants
    /\ \E file \in ConfigFiles :
          LET r == load_config(variant, NoConfig, file)
          IN  /\ config = r.config
              /\ mpc = IF r.exit THEN "exited"
                       ELSE IF variant = "simple" THEN "loop" ELSE "init"
    /\ InitRest

(***************************************************************************)
(* The consumer registry: handle_client, one task per websocket.  Tasks    *)
(* run on the event loop, hence only while main_loop / run is suspended in *)
(* an await (a client.send of broadcast, or asyncio.sleep).                *)
(***************************************************************************)
AtYield == mpc \in {"bcast", "sleep"}

\* what a handle_client step does to the broadcast in flight, if any
Interfere ==
    IF mpc = "bcast"
    THEN /\ bcDirty' = TRUE
         /\ bcLog' = [bcLog EXCEPT !.interfered = TRUE]
    ELSE UNCHANGED <<bcDirty, bcLog>>

\* self.clients.add(websocket), then await websocket.wait_closed()
\* (websockets are numbered in the order they connect)
Connect(w) ==
    /\ AtYield
    /\ sock[w] = "none"
    /\ \A u \in WS : u < w => sock[u] # "none"
    /\ clients' = clients \cup {w}
    /\ sock' = [sock EXCEPT ![w] = "open"]
    /\ Interfere
    /\ UNCHANGED <<staticVars, running, threadVars, result_queue, mpc, cur,
                   mainExc, exports, recVars, predVars, bcCur, bcLeft, bcSize,
                   disconnected, cycVars>>

\* the connection closes; its task is not resumed yet
Close(w) ==
    /\ AtYield
    /\ sock[w] = "open"
    /\ sock' = [sock EXCEPT ![w] = "closed"]
    /\ UNCHANGED <<staticVars, running, threadVars, result_queue, mpc, cur,
                   mainExc, exports, recVars, predVars, clients, iterVars,
                   cycVars, bcLog>>

\* set.remove(x): KeyError when x is absent
set_remove(set, x) ==
    IF x \in set THEN [raised |-> FALSE, set |-> set \ {x}]
    ELSE [raised |-> TRUE, set |-> set]

\* wait_closed returns; finally: self.clients.remove(websocket)
HandlerResume(w) ==
    /\ AtYield
    /\ sock[w] = "closed"
    /\ LET r == set_remove(clients, w)
       IN  /\ clients' = r.set
           /\ sock' = [sock EXCEPT ![w] = IF r.raised THEN "keyerror" ELSE "done"]
           /\ IF r.set # clients THEN Interfere ELSE UNCHANGED <<bcDirty, bcLog>>
    /\ UNCHANGED <<staticVars, running, threadVars, result_queue, mpc, cur,
                   mainExc, exports, recVars, predVars, bcCur, bcLeft, bcSize,
                   disconnected, cycVars>>

(***************************************************************************)
(* broadcast.                                                              *)
(***************************************************************************)
\* the clients a `for` over the registry may still yield.  The threaded
\* trackers iterate self.clients itself: after a mutation that kept its size
\* the set iterator goes on over the changed table and may yield any of the
\* current members, or none.  SimplifiedTracker iterates list(self.clients).
iter_left(v, left, cl, dirty) ==
    IF v \in Threaded /\ dirty THEN SUBSET cl ELSE {left}

\* the set iterator's check: "Set changed size during iteration"
iter_raises(v, cl, size) == v \in Threaded /\ Cardinality(cl) # size

\* client.send(message) raises once the connection is closed
send_ok(w) == sock[w] = "open"

\* a broadcast that never discards the clients whose send raised
broadcast_cleanup_keep(cl, failed) == cl

\* the registry a finished broadcast leaves; failed: the clients whose send
\* raised during the call (threaded: the list disconnected, discarded at
\* the end; simple: discarded one by one already)
broadcast_cleanup(cl, failed) == cl \ failed

\* a main_loop that never stores the snapshot it broadcast
stored_states_never(bc, markers, last) == last

\* a main_loop that stores every snapshot as the reference
stored_states_always(bc, markers, last) == markers

\* self.last_states after the `if self.should_broadcast(...)` block
stored_states(bc, markers, last) == IF bc THEN markers ELSE last

\* the call self.broadcast(data) up to its first await: the registry is not
\* empty, the iterator yields its first client
BroadcastBegin ==
    /\ \E c \in clients :
          /\ bcCur' = c
          /\ bcLeft' = clients \ {c}
    /\ bcSize' = Cardinality(clients)
    /\ bcDirty' = FALSE
    /\ disconnected' = {}
    /\ bcLog' = [NoBroadcast EXCEPT !.start = clients]
    /\ mpc' = "bcast"

\* the send in flight completes (ok) or raises, and the loop takes its next
\* client
BroadcastSend(ok) ==
    /\ mpc = "bcast"
    /\ LET disc == IF ok THEN disconnected ELSE disconnected \cup {bcCur}
           cl == IF variant = "simple" /\ ~ok
                 THEN broadcast_cleanup(clients, {bcCur}) ELSE clients
           log == [bcLog EXCEPT
                     !.delivered = IF ok THEN @ \cup {bcCur} ELSE @,
                     !.failed = IF ok THEN @ ELSE @ \cup {bcCur}]
       IN  IF iter_raises(variant, clients, bcSize)
           THEN \* RuntimeError leaves broadcast and main_loop's try blocks
                /\ mainExc' = "RuntimeError"
                /\ mpc' = "finally"
                /\ bcLog' = [log EXCEPT !.aborted = TRUE]
                /\ bcCur' = NoSock
                /\ bcLeft' = {}
                /\ disconnected' = disc
                /\ UNCHANGED <<clients, last_states, bcSize, bcDirty>>
           ELSE \E left \in iter_left(variant, bcLeft, clients, bcDirty) :
                  IF left = {}
                  THEN /\ clients' = IF variant = "simple" THEN cl
                                     ELSE broadcast_cleanup(cl, disc)
                       /\ bcLog' = [log EXCEPT !.finished = TRUE,
                                               !.after = clients']
                       /\ bcCur' = NoSock
                       /\ bcLeft' = {}
                       /\ disconnected' = disc
                       /\ bcDirty' = FALSE
                       \* main_loop: self.last_states = markers.copy()
                       /\ last_states' = IF variant = "simple" THEN last_states
                                         ELSE stored_states(TRUE, cur,
                                                            last_states)
                       /\ mpc' = IF variant = "simple" THEN "keys" ELSE "sleep"
                       /\ UNCHANGED <<mainExc, bcSize>>
                  ELSE /\ \E c \in left :
                             /\ bcCur' = c
                             /\ bcLeft' = left \ {c}
                       /\ clients' = cl
                       /\ bcLog' = log
                       /\ disconnected' = disc
                       /\ bcDirty' = FALSE
                       /\ UNCHANGED <<mainExc, bcSize, last_states, mpc>>
    /\ UNCHANGED <<staticVars, running, threadVars, result_queue, cur, exports,
                   design_history, frame_count, predVars, sock, cycVars>>

\* the send completes, or raises because the connection is closed
BroadcastStep == BroadcastSend(send_ok(bcCur))

(***************************************************************************)
(* main_loop of the threaded trackers.                                     *)
(***************************************************************************)
\* self.running = True; both threads start
MainStart ==
    /\ mpc = "init"
    /\ variant \in Threaded
    /\ running' = TRUE
    /\ cpc' = "loop"
    /\ ppc' = "loop"
    /\ mpc' = "loop"
    /\ UNCHANGED <<staticVars, capVars, cap_frame_count, frame_skip_counter,
                   last_gray, cframe, frame_queue, qLogVars, pres, result_queue,
                   cur, mainExc, exports, recVars, predVars, regVars, iterVars,
                   cycVars, bcLog>>

\* one pass of the loop body that dequeues a result: predict, history gate
\* and recorder, broadcast gate, and broadcast up to its first await.  dt is
\* current_time - last_update_time as predict_marker_positions measures it.
MainCycle(dt) ==
    /\ mpc = "loop"
    /\ variant \in Threaded
    /\ running
    /\ result_queue # <<>>
    /\ LET markers == Head(result_queue).markers
           p == IF variant = "scrap"
                THEN predict_marker_positions(markers, last_states,
                                              marker_velocities, dt)
                ELSE [pred |-> QMarkers(markers), vel |-> marker_velocities]
           hist == should_update_history(variant, markers, last_states)
           raises == hist /\ update_history_raises(markers, last_states, config)
           bc == ~raises /\ should_broadcast(variant, p.pred, last_states)
       IN  /\ result_queue' = Tail(result_queue)
           /\ marker_velocities' = p.vel
           /\ has_last_update_time' = (has_last_update_time \/ variant = "scrap")
           /\ cur' = markers
           /\ cycles' = cycles + 1
           /\ nrec' = IF hist THEN nrec + 1 ELSE nrec
           /\ histRef' = IF hist THEN markers ELSE histRef
           /\ prevCyc' = lastCyc
           /\ lastCyc' = [n |-> cycles + 1,
                          ts |-> Head(result_queue).timestamp,
                          markers |-> markers, dt |-> dt,
                          hist |-> hist, bcast |-> bc, payload |-> p.pred,
                          ref |-> last_states, vel |-> marker_velocities]
           /\ IF raises
              THEN \* KeyError leaves both try blocks of main_loop
                   /\ design_history' \in
                         update_history_partial(markers, last_states,
                                                design_history)
                   /\ mainExc' = "KeyError"
                   /\ mpc' = "finally"
                   /\ UNCHANGED <<frame_count, last_states, iterVars, bcLog>>
              ELSE /\ design_history' =
                        IF hist
                        THEN update_history(markers, last_states,
                                            design_history, frame_count, config)
                        ELSE design_history
                   /\ frame_count' = IF hist THEN next_frame_count(frame_count)
                                     ELSE frame_count
                   /\ UNCHANGED mainExc
                   /\ IF bc /\ clients # {}
                      THEN /\ BroadcastBegin
                           /\ UNCHANGED last_states
                      ELSE /\ last_states' =
                                stored_states(bc, markers, last_states)
                           /\ mpc' = "sleep"
                           /\ UNCHANGED <<iterVars, bcLog>>
    /\ UNCHANGED <<staticVars, running, threadVars, exports, regVars>>

\* the dt a cycle can measure: 0.033 s by default on the first call
DtChoices(dts) ==
    IF variant # "scrap" THEN {0}
    ELSE IF has_last_update_time THEN dts ELSE {DefaultDt}

\* result_queue.get(timeout=...) raised Empty: `continue`, back to the loop
\* test without reaching the sleep; no state changes
MainTimeout ==
    /\ mpc = "loop"
    /\ variant \in Threaded
    /\ running
    /\ result_queue = <<>>
    /\ UNCHANGED vars

\* await asyncio.sleep(...) is over
MainSleep ==
    /\ mpc = "sleep"
    /\ mpc' = "loop"
    /\ UNCHANGED <<staticVars, running, threadVars, result_queue, cur, mainExc,
                   exports, recVars, predVars, regVars, iterVars, cycVars,
                   bcLog>>

\* Ctrl+C while main_loop is suspended in a send of broadcast: the interrupt
\* reaches the coroutine as an exception raised by the await, and the bare
\* `except:` around client.send takes it for a failed send; main_loop goes on
MainInterruptSend ==
    /\ variant \in Threaded
    /\ BroadcastSend(FALSE)

\* Ctrl+C while the loop body runs or main_loop is suspended in its sleep
MainInterrupt ==
    /\ variant \in Threaded
    /\ mpc \in {"loop", "sleep"}
    /\ mainExc' = "KeyboardInterrupt"
    /\ mpc' = "finally"
    /\ UNCHANGED <<staticVars, running, threadVars, result_queue, cur, exports,
                   recVars, predVars, regVars, iterVars, cycVars, bcLog>>

\* an export_history that writes an empty log
export_record_empty(ok, hist, n) ==
    [ok |-> ok, log |-> [s \in {} |-> 0], nrec |-> n]

\* what one export_history call leaves behind: with ok the file holds the
\* json.dump of self.design_history; n counts the update_history calls made
\* before it
export_record(ok, hist, n) ==
    [ok |-> ok, log |-> IF ok THEN hist ELSE [s \in {} |-> 0], nrec |-> n]

\* a finally clause that releases the camera without exporting
shutdown_next_no_export(pc) ==
    CASE pc = "finally" -> "release"
      [] OTHER -> "done"

\* the order of the finally clause of main_loop (and of the end of run):
\* self.running = False, self.export_history(), self.cap.release()
shutdown_next(pc) ==
    CASE pc = "finally" -> "export"
      [] pc = "export" -> "release"
      [] OTHER -> "done"

\* finally: self.running = False
MainFinally ==
    /\ mpc = "finally"
    /\ running' = FALSE
    /\ mpc' = shutdown_next(mpc)
    /\ UNCHANGED <<staticVars, threadVars, result_queue, cur, mainExc, exports,
                   recVars, predVars, regVars, iterVars, cycVars, bcLog>>

\* self.export_history(): json.dump of design_history, or a caught error
MainExport(ok) ==
    /\ mpc = "export"
    /\ exports' = Append(exports, export_record(ok, design_history, nrec))
    /\ mpc' = shutdown_next(mpc)
    /\ UNCHANGED <<staticVars, running, threadVars, result_queue, cur, mainExc,
                   recVars, predVars, regVars, iterVars, cycVars, bcLog>>

\* self.cap.release()
MainRelease ==
    /\ mpc = "release"
    /\ capReleased' = TRUE
    /\ mpc' = shutdown_next(mpc)
    /\ UNCHANGED <<staticVars, running, nread, captureVars, procVars,
                   frame_queue, qLogVars, result_queue, cur, mainExc, exports,
                   recVars, predVars, regVars, iterVars, cycVars, bcLog>>

(***************************************************************************)
(* run of SimplifiedTracker.                                               *)
(***************************************************************************)
\* cap.read() returned a frame whose markers are `markers`: history gate and
\* recorder (which also stores last_states), then broadcast up to its first
\* await
SimpleCycle(markers) ==
    /\ mpc = "loop"
    /\ variant = "simple"
    /\ LET hist == should_update_history(variant, markers, last_states)
           raises == hist /\ update_history_raises(markers, last_states, config)
       IN  /\ nread' = nread + 1
           /\ cur' = markers
           /\ cycles' = cycles + 1
           /\ nrec' = IF hist THEN nrec + 1 ELSE nrec
           /\ histRef' = IF hist THEN markers ELSE histRef
           /\ prevCyc' = lastCyc
           /\ lastCyc' = [n |-> cycles + 1, ts |-> nread + 1,
                          markers |-> markers, dt |-> 0,
                          hist |-> hist, bcast |-> ~raises,
                          payload |-> QMarkers(markers), ref |-> last_states,
                          vel |-> marker_velocities]
           /\ IF raises
              THEN \* KeyError leaves run: nothing catches it
                   /\ design_history' \in
                         update_history_partial(markers, last_states,
                                                design_history)
                   /\ mainExc' = "KeyError"
                   /\ mpc' = "crashed"
                   /\ UNCHANGED <<frame_count, last_states, iterVars, bcLog>>
              ELSE /\ design_history' =
                        IF hist
                        THEN update_history(markers, last_states,
                                            design_history, frame_count, config)
                        ELSE design_history
                   /\ frame_count' = IF hist THEN next_frame_count(frame_count)
                                     ELSE frame_count
                   /\ last_states' = IF hist THEN markers ELSE last_states
                   /\ UNCHANGED mainExc
                   /\ IF clients # {}
                      THEN BroadcastBegin
                      ELSE /\ mpc' = "keys"
                           /\ UNCHANGED <<iterVars, bcLog>>
    /\ UNCHANGED <<staticVars, running, capReleased, captureVars, procVars,
                   frame_queue, qLogVars, result_queue, exports, predVars,
                   regVars>>

\* cap.read() returned no frame: break
SimpleEndOfStream ==
    /\ mpc = "loop"
    /\ variant = "simple"
    /\ mpc' = "export"
    /\ UNCHANGED <<staticVars, running, threadVars, result_queue, cur, mainExc,
                   exports, recVars, predVars, regVars, iterVars, cycVars,
                   bcLog>>

\* key 'e': self.export_history(), the write succeeds (ok) or its error is
\* caught; then the sleep
SimpleExportKey(ok) ==
    /\ mpc = "keys"
    /\ variant = "simple"
    /\ exports' = Append(exports, export_record(ok, design_history, nrec))
    /\ mpc' = "sleep"
    /\ UNCHANGED <<staticVars, running, threadVars, result_queue, cur, mainExc,
                   recVars, predVars, regVars, iterVars, cycVars, bcLog>>

\* key 'r': self.load_config('marker_config.json'), the file being `file`;
\* exit(1) raises SystemExit, which nothing in run catches
SimpleReloadKey(file) ==
    /\ mpc = "keys"
    /\ variant = "simple"
    /\ LET r == load_config(variant, config, file)
       IN  /\ config' = r.config
           /\ mpc' = IF r.exit THEN "exited" ELSE "sleep"
           /\ mainExc' = IF r.exit THEN "SystemExit" ELSE mainExc
    /\ UNCHANGED <<variant, running, threadVars, result_queue, cur, exports,
                   recVars, predVars, regVars, iterVars, cycVars, bcLog>>

\* cv2.waitKey(1): 'q' breaks, any other key here goes on to the sleep
SimpleKeys(key) ==
    /\ mpc = "keys"
    /\ mpc' = IF key = "q" THEN "export" ELSE "sleep"
    /\ UNCHANGED <<staticVars, running, threadVars, result_queue, cur, mainExc,
                   exports, recVars, predVars, regVars, iterVars, cycVars,
                   bcLog>>

(***************************************************************************)
(* The environment of the orchestrator.                                    *)
(***************************************************************************)
ResultQueueMax(v) ==
    IF v = "scrap" THEN ResultQueueMaxScrap ELSE ResultQueueMaxCollage

\* process_thread publishes the result of a frame whose markers are `markers`
\* (result_queue.put_nowait; a full queue drops it)
PublishResult(markers) ==
    /\ variant \in Threaded
    /\ running
    /\ result_queue' =
          IF Len(result_queue) < ResultQueueMax(variant)
          THEN Append(result_queue, [timestamp |-> 0, markers |-> markers])
          ELSE result_queue
    /\ UNCHANGED <<staticVars, running, threadVars, mpc, cur, mainExc, exports,
                   recVars, predVars, regVars, iterVars, cycVars, bcLog>>

(***************************************************************************)
(* The gate specification: the orchestrator of each tracker, fed snapshots *)
(* one at a time, with no consumer connected.                              *)
(***************************************************************************)
S7(z) == 7 :> Pose(0, 0, z, 0)

S78(z7, x8) == (7 :> Pose(0, 0, z7, 0)) @@ (8 :> Pose(x8, 0, 500, 0))

GateSnaps ==
    {EmptyMarkers, S7(1000), S7(1004), S7(1012), S7(1020),
     7 :> Pose(0, 0, 1000, 25), 8 :> Pose(0, 0, 500, 0),
     S78(1000, 0), S78(1000, 20)}

\* the time between two cycles: inside the prediction window, or one second
GateDts == {50, 1000}

FeedGate ==
    \E m \in GateSnaps :
        /\ mpc = "loop"
        /\ result_queue = <<>>
        /\ cycles < MaxCycles
        /\ PublishResult(m)

NextGate ==
    \/ MainStart
    \/ FeedGate
    \/ \E dt \in DtChoices(GateDts) : MainCycle(dt)
    \/ MainSleep
    \/ MainInterrupt
    \/ MainFinally
    \/ MainExport(TRUE)
    \/ MainRelease
    \/ \E m \in GateSnaps : cycles < MaxCycles /\ SimpleCycle(m)
    \/ SimpleEndOfStream
    \/ \E key \in {"none", "q"} : SimpleKeys(key)

SpecGate == Init /\ [][NextGate]_vars

(***************************************************************************)
(* The disappearance scenario: a fresh tracker is given one non-empty      *)
(* snapshot and then EmptyRunLen empty ones.                               *)
(***************************************************************************)
ScenarioSnaps(n) ==
    IF n = 0 THEN GateSnaps \ {EmptyMarkers} ELSE {EmptyMarkers}

FeedEmptyRun ==
    \E m \in ScenarioSnaps(cycles) :
        /\ mpc = "loop"
        /\ result_queue = <<>>
        /\ cycles < 1 + EmptyRunLen
        /\ PublishResult(m)

NextEmptyRun ==
    \/ MainStart
    \/ FeedEmptyRun
    \/ \E dt \in DtChoices(GateDts) : MainCycle(dt)
    \/ MainSleep
    \/ \E m \in ScenarioSnaps(cycles) :
          cycles < 1 + EmptyRunLen /\ SimpleCycle(m)
    \/ SimpleKeys("none")

SpecEmptyRun == Init /\ [][NextEmptyRun]_vars

(***************************************************************************)
(* Claims about the gates and the recorder.                                *)
(***************************************************************************)
CycleDone == mpc \in {"loop", "sleep"}

\* C4 (as claimed): in the threaded trackers the reference should_update_history
\* compares against is the last raw snapshot for which should_update_history
\* returned True; a broadcast-gate pass leaves it alone.
C4_HistoryGateOwnReference ==
    (variant \in Threaded /\ CycleDone) => last_states = histRef

\* C5 (as claimed): in the scrap tracker, a cycle whose raw snapshot equals
\* the raw snapshot of the cycle before it invokes neither update_history nor
\* broadcast.
C5_IdenticalSnapshotSuppressed ==
    (variant = "scrap" /\ lastCyc.n >= 2 /\ lastCyc.markers = prevCyc.markers)
        => (~lastCyc.hist /\ ~lastCyc.bcast)

\* C6: the history log is append-only: every step keeps every (entity id,
\* frame index) entry of design_history, with the same value.
C6_HistoryAppendOnly ==
    [][\A s \in DOMAIN design_history :
          /\ s \in DOMAIN design_history'
          /\ \A k \in DOMAIN design_history[s] :
                /\ k \in DOMAIN design_history'[s]
                /\ design_history'[s][k] = design_history[s][k]]_vars

C6_Witness ==
    /\ nrec >= 2
    /\ \E s \in DOMAIN design_history :
          Cardinality(DOMAIN design_history[s]) >= 2

\* C7: after one non-empty snapshot and then empty ones, update_history is
\* invoked once for the non-empty snapshot and exactly once more, in the first
\* empty cycle, where it writes one entry (the last known pose) for each
\* entity that disappeared; no later empty cycle writes anything.
C7_DisappearanceRecordedOnce ==
    /\ cycles = 1 => nrec = 1
    /\ cycles >= 2 =>
          /\ nrec = 2
          /\ \A s \in DOMAIN design_history :
                /\ DOMAIN design_history[s] = {"0", "1"}
                /\ design_history[s]["1"] = design_history[s]["0"]
    /\ lastCyc.n >= 3 => ~lastCyc.hist

C7_Witness ==
    /\ cycles = 1 + EmptyRunLen
    /\ nrec = 2
    /\ DOMAIN design_history # {}

\* C8: in the scrap tracker, entity 7 at (0,0,1) and then at (0,0,1.02) one
\* second later: the second cycle broadcasts, the payload holds entity 7 with
\* z > 1, and design_history["7"] has at most 2 entries.
C8_Scenario ==
    /\ variant = "scrap"
    /\ lastCyc.n = 2
    /\ prevCyc.markers = S7(1000)
    /\ lastCyc.markers = S7(1020)
    /\ lastCyc.dt = 1000

C8_SecondSnapshotBroadcast ==
    C8_Scenario =>
        /\ lastCyc.bcast
        /\ 7 \in DOMAIN lastCyc.payload
        /\ QGtInt(lastCyc.payload[7].position.z, 1000)
        /\ "7" \in DOMAIN design_history
        /\ Cardinality(DOMAIN design_history["7"]) <= 2

C8_Witness == C8_Scenario /\ CycleDone /\ last_states = S7(1020)

(***************************************************************************)
(* The registry specification: consumers connect and disconnect while the  *)
(* orchestrator of each tracker runs and broadcasts.                       *)
(***************************************************************************)
RegSnaps == {EmptyMarkers, S7(1000)}

RegDts == {50}

FeedRegistry ==
    \E m \in RegSnaps :
        /\ mpc = "loop"
        /\ result_queue = <<>>
        /\ cycles < MaxRegCycles
        /\ PublishResult(m)

NextRegistry ==
    \/ MainStart
    \/ FeedRegistry
    \/ \E dt \in DtChoices(RegDts) : MainCycle(dt)
    \/ BroadcastStep
    \/ MainSleep
    \/ MainFinally
    \/ MainExport(TRUE)
    \/ MainRelease
    \/ \E m \in RegSnaps : cycles < MaxRegCycles /\ SimpleCycle(m)
    \/ SimpleKeys("none")
    \/ \E w \in WS : Connect(w)
    \/ \E w \in WS : Close(w)
    \/ \E w \in WS : HandlerResume(w)

SpecRegistry == InitNoFile /\ [][NextRegistry]_vars

(***************************************************************************)
(* Claims about broadcast and the registry.                                *)
(***************************************************************************)
\* C1 (as claimed): in the threaded trackers a consumer connecting or
\* disconnecting while broadcast is suspended in a send never aborts the
\* broadcast nor ends main_loop, and every consumer registered when the
\* broadcast began gets its delivery attempt.
C1_BroadcastSurvivesRegistryChange ==
    variant \in Threaded =>
        /\ ~bcLog.aborted
        /\ mainExc # "RuntimeError"
        /\ bcLog.finished =>
              bcLog.start \subseteq (bcLog.delivered \cup bcLog.failed)

\* C2: a broadcast call during which no handle_client task touched the
\* registry attempts every registered consumer once, delivers to every one
\* whose send does not fail, and leaves exactly the failed ones out of
\* clients; with 3 consumers of which one fails, the other two are delivered
\* and stay registered.
C2_FailureIsolated ==
    (bcLog.finished /\ ~bcLog.interfered) =>
        /\ bcLog.delivered \cup bcLog.failed = bcLog.start
        /\ bcLog.delivered \cap bcLog.failed = {}
        /\ bcLog.after = bcLog.start \ bcLog.failed

C2_Witness ==
    /\ variant \in Threaded
    /\ bcLog.finished
    /\ ~bcLog.interfered
    /\ Cardinality(bcLog.start) = 3
    /\ Cardinality(bcLog.failed) = 1
    /\ Cardinality(bcLog.delivered) = 2
    /\ bcLog.after = bcLog.delivered

\* C3 (as claimed): the removal handle_client performs on disconnect never
\* raises, also when broadcast has already removed the consumer.
C3_RemovalIdempotent == \A w \in WS : sock[w] # "keyerror"

(***************************************************************************)
(* capture_thread and process_thread.  A frame is the markers the detector *)
(* finds in it and seq, its place in the order cap.read returned frames.   *)
(***************************************************************************)
FrameQueueMax(v) ==
    IF v = "scrap" THEN FrameQueueMaxScrap ELSE FrameQueueMaxCollage

\* a frame skipping without the cap: every frame in high motion is skipped
motion_skip_uncapped(fcnt, lg, counter, motion_amount) ==
    IF fcnt > 1
    THEN IF lg
         THEN IF motion_amount > motion_threshold
              THEN [process |-> FALSE, counter |-> counter + 1,
                    last_gray |-> TRUE]
              ELSE [process |-> TRUE, counter |-> 0, last_gray |-> TRUE]
         ELSE [process |-> TRUE, counter |-> counter, last_gray |-> TRUE]
    ELSE [process |-> TRUE, counter |-> counter, last_gray |-> lg]

\* the motion-based frame skipping of the scrap capture_thread, for the frame
\* that makes its local frame_count fcnt; motion_amount is np.sum(diff)
motion_skip(fcnt, lg, counter, motion_amount) ==
    IF fcnt > 1
    THEN IF lg
         THEN IF motion_amount > motion_threshold
              THEN [process |-> ~(counter + 1 <= max_frame_skip),
                    counter |-> counter + 1, last_gray |-> TRUE]
              ELSE [process |-> TRUE, counter |-> 0, last_gray |-> TRUE]
         ELSE [process |-> TRUE, counter |-> counter, last_gray |-> TRUE]
    ELSE [process |-> TRUE, counter |-> counter, last_gray |-> lg]

\* a worker loop that never looks at the shutdown signal
loop_next_forever(r, body) == body

\* `while self.running:` of a worker thread: into the body, or out
loop_next(r, body) == IF r THEN body ELSE "exit"

\* while self.running
CaptureLoop ==
    /\ cpc = "loop"
    /\ cpc' = loop_next(running, "read")
    /\ UNCHANGED <<staticVars, running, capVars, cap_frame_count,
                   frame_skip_counter, last_gray, cframe, procVars, frame_queue,
                   qLogVars, result_queue, mpc, cur, mainExc, exports, recVars,
                   predVars, regVars, iterVars, cycVars, bcLog>>

\* where capture_thread goes with a frame it forwards: scrap drains the
\* queue (while not empty), collage looks whether it is full
capture_forward(v) == IF v = "scrap" THEN "drain" ELSE "full"

\* ret, frame = self.cap.read() with ret true, and the skip decision
CaptureRead(markers, motion_amount) ==
    /\ cpc = "read"
    /\ variant \in Threaded
    /\ nread' = nread + 1
    /\ cframe' = [seq |-> nread + 1, markers |-> markers]
    /\ IF variant = "scrap"
       THEN LET d == motion_skip(cap_frame_count + 1, last_gray,
                                 frame_skip_counter, motion_amount)
            IN  /\ cap_frame_count' = cap_frame_count + 1
                /\ frame_skip_counter' = d.counter
                /\ last_gray' = d.last_gray
                /\ cpc' = IF d.process THEN capture_forward(variant) ELSE "loop"
       ELSE /\ cpc' = capture_forward(variant)
            /\ UNCHANGED <<cap_frame_count, frame_skip_counter, last_gray>>
    /\ UNCHANGED <<staticVars, running, capReleased, procVars, frame_queue,
                   qLogVars, result_queue, mpc, cur, mainExc, exports, recVars,
                   predVars, regVars, iterVars, cycVars, bcLog>>

\* cap.read() returned ret false: continue
CaptureReadFail ==
    /\ cpc = "read"
    /\ cpc' = "loop"
    /\ UNCHANGED <<staticVars, running, capVars, cap_frame_count,
                   frame_skip_counter, last_gray, cframe, procVars, frame_queue,
                   qLogVars, result_queue, mpc, cur, mainExc, exports, recVars,
                   predVars, regVars, iterVars, cycVars, bcLog>>

\* a capture_thread that puts without draining the queue first
drain_next_skip(q) == "put"

\* scrap: `while not self.frame_queue.empty()`
drain_next(q) == IF q = <<>> THEN "put" ELSE "get"

\* collage: `if self.frame_queue.full()`
full_next(q) == IF Len(q) >= FrameQueueMaxCollage THEN "get" ELSE "put"

CaptureCheck ==
    /\ cpc \in {"drain", "full"}
    /\ cpc' = IF cpc = "drain" THEN drain_next(frame_queue)
              ELSE full_next(frame_queue)
    /\ UNCHANGED <<staticVars, running, capVars, cap_frame_count,
                   frame_skip_counter, last_gray, cframe, procVars, frame_queue,
                   qLogVars, result_queue, mpc, cur, mainExc, exports, recVars,
                   predVars, regVars, iterVars, cycVars, bcLog>>

\* self.frame_queue.get_nowait(); Empty is caught (scrap: break, collage: pass)
CaptureGet ==
    /\ cpc = "get"
    /\ IF frame_queue # <<>>
       THEN /\ frame_queue' = Tail(frame_queue)
            /\ cpc' = IF variant = "scrap" THEN "drain" ELSE "put"
       ELSE /\ cpc' = "put"
            /\ UNCHANGED frame_queue
    /\ UNCHANGED <<staticVars, running, capVars, cap_frame_count,
                   frame_skip_counter, last_gray, cframe, procVars, qLogVars,
                   result_queue, mpc, cur, mainExc, exports, recVars, predVars,
                   regVars, iterVars, cycVars, bcLog>>

\* a bounded queue that makes room by evicting its oldest item
put_nowait_evict(q, max, item) ==
    IF Len(q) < max THEN Append(q, item) ELSE Append(Tail(q), item)

\* a bounded queue that hands out its newest item first
put_nowait_front(q, max, item) == IF Len(q) < max THEN <<item>> \o q ELSE q

\* Queue.put_nowait: Full when the queue holds maxsize items
put_nowait(q, max, item) == IF Len(q) < max THEN Append(q, item) ELSE q

\* self.frame_queue.put_nowait((time.time(), frame)); Full is swallowed
CapturePut ==
    /\ cpc = "put"
    /\ frame_queue' = put_nowait(frame_queue, FrameQueueMax(variant), cframe)
    /\ lastFwd' = cframe.seq
    /\ cpc' = "loop"
    /\ UNCHANGED <<staticVars, running, capVars, cap_frame_count,
                   frame_skip_counter, last_gray, cframe, procVars, lastDeq,
                   result_queue, mpc, cur, mainExc, exports, recVars, predVars,
                   regVars, iterVars, cycVars, bcLog>>

\* while self.running
ProcessLoop ==
    /\ ppc = "loop"
    /\ ppc' = loop_next(running, "get")
    /\ UNCHANGED <<staticVars, running, capVars, captureVars, pres, frame_queue,
                   qLogVars, result_queue, mpc, cur, mainExc, exports, recVars,
                   predVars, regVars, iterVars, cycVars, bcLog>>

\* timestamp, frame = self.frame_queue.get(timeout=0.1), then detect_markers
ProcessGet ==
    /\ ppc = "get"
    /\ frame_queue # <<>>
    /\ frame_queue' = Tail(frame_queue)
    /\ pres' = [timestamp |-> Head(frame_queue).seq,
                markers |-> Head(frame_queue).markers]
    /\ lastDeq' = [seq |-> Head(frame_queue).seq, newest |-> lastFwd]
    /\ ppc' = "put"
    /\ UNCHANGED <<staticVars, running, capVars, captureVars, lastFwd,
                   result_queue, mpc, cur, mainExc, exports, recVars, predVars,
                   regVars, iterVars, cycVars, bcLog>>

\* the get timed out: except Empty: continue
ProcessTimeout ==
    /\ ppc = "get"
    /\ frame_queue = <<>>
    /\ ppc' = "loop"
    /\ UNCHANGED <<staticVars, running, capVars, captureVars, pres, frame_queue,
                   qLogVars, result_queue, mpc, cur, mainExc, exports, recVars,
                   predVars, regVars, iterVars, cycVars, bcLog>>

\* self.result_queue.put_nowait(result); Full is swallowed
ProcessPut ==
    /\ ppc = "put"
    /\ result_queue' = put_nowait(result_queue, ResultQueueMax(variant), pres)
    /\ ppc' = "loop"
    /\ UNCHANGED <<staticVars, running, capVars, captureVars, pres, frame_queue,
                   qLogVars, mpc, cur, mainExc, exports, recVars, predVars,
                   regVars, iterVars, cycVars, bcLog>>

(***************************************************************************)
(* The pipeline specification: the three threads of the threaded trackers. *)
(***************************************************************************)
PipeSnaps == {EmptyMarkers, S7(1000)}

MotionAmounts == {0, 3000}

\* the motion amounts that can make a difference to the frame read next
MotionChoices ==
    IF variant = "scrap" /\ cap_frame_count >= 1 /\ last_gray
    THEN MotionAmounts ELSE {0}

NextPipeline ==
    \/ MainStart
    \/ CaptureLoop
    \/ \E m \in PipeSnaps, a \in MotionChoices :
          nread < MaxFrames /\ CaptureRead(m, a)
    \/ CaptureReadFail
    \/ CaptureCheck
    \/ CaptureGet
    \/ CapturePut
    \/ ProcessLoop
    \/ ProcessGet
    \/ ProcessTimeout
    \/ ProcessPut
    \/ \E dt \in DtChoices(RegDts) : MainCycle(dt)
    \/ MainSleep
    \/ MainInterrupt
    \/ MainFinally
    \/ MainExport(TRUE)
    \/ MainRelease

SpecPipeline == InitNoFile /\ [][NextPipeline]_vars

(***************************************************************************)
(* Claims about the capture queue.                                         *)
(***************************************************************************)
\* C9: in the scrap tracker frame_queue holds at most one item, an item it
\* holds is the frame capture_thread forwarded last, and while process_thread
\* has dequeued nothing the queue holds the last forwarded frame whenever
\* capture_thread is between two frames.
C9_SingleSlotNewest ==
    variant = "scrap" =>
        /\ Len(frame_queue) <= 1
        /\ frame_queue # <<>> => frame_queue[1].seq = lastFwd
        /\ (lastDeq.seq = 0 /\ lastFwd >= 1 /\ cpc \in {"loop", "read"}) =>
              (Len(frame_queue) = 1 /\ frame_queue[1].seq = lastFwd)

\* the second forwarded frame replaced the first, which nobody dequeued
C9_Witness ==
    /\ variant = "scrap"
    /\ lastDeq.seq = 0
    /\ lastFwd >= 2
    /\ Len(frame_queue) = 1
    /\ frame_queue[1].seq = lastFwd

\* C10 (as claimed): in the collage tracker every frame process_thread
\* dequeues is the frame published last at that moment.
C10_DequeuesNewest ==
    variant = "collage" => lastDeq.seq = lastDeq.newest

(***************************************************************************)
(* The result-queue specification: the three threads of the threaded       *)
(* trackers, with a source that delivers enough frames to fill             *)
(* result_queue; main_loop dequeues at any moment, MaxCycles times at most.*)
(***************************************************************************)
InitThreads == InitNoFile /\ variant \in Threaded

NextResultQueue ==
    \/ MainStart
    \/ CaptureLoop
    \/ /\ nread < ResultQueueMax(variant) + MaxOverfill
       /\ CaptureRead(S7(1000), 0)
    \/ CaptureCheck
    \/ CaptureGet
    \/ CapturePut
    \/ ProcessLoop
    \/ ProcessGet
    \/ ProcessTimeout
    \/ ProcessPut
    \/ \E dt \in DtChoices(RegDts) : cycles < MaxCycles /\ MainCycle(dt)
    \/ MainSleep

SpecResultQueue == InitThreads /\ [][NextResultQueue]_vars

\* C11: result_queue never holds more than its maxsize (5 in scrap, 10 in
\* collage); a put_nowait of process_thread on a full queue leaves the queue
\* as it was (the new result is discarded), and on a queue with room it
\* appends the result at the end.
C11_ResultQueueBounded ==
    /\ [](Len(result_queue) <= ResultQueueMax(variant))
    /\ [][(ppc = "put" /\ ppc' # "put") =>
            IF Len(result_queue) >= ResultQueueMax(variant)
            THEN result_queue' = result_queue
            ELSE result_queue' = Append(result_queue, pres)]_vars

\* process_thread has just published a result that is newer than all the
\* results of the full queue: it was discarded
C11_Witness ==
    /\ ppc = "loop"
    /\ pres # NoResult
    /\ Len(result_queue) = ResultQueueMax(variant)
    /\ \A i \in 1..Len(result_queue) :
          result_queue[i].timestamp < pres.timestamp

(***************************************************************************)
(* The shutdown specification: every tracker on a video source that        *)
(* delivers MaxFrames frames and then reports end-of-stream (cap.read      *)
(* returns ret false), under fair scheduling.  Each thread that can take a *)
(* step eventually takes one; the user may or may not press Ctrl+C.        *)
(***************************************************************************)
StreamEnded == nread >= MaxFrames

CaptureStep ==
    \/ CaptureLoop
    \/ ~StreamEnded /\ ~capReleased /\ CaptureRead(S7(1000), 0)
    \/ (StreamEnded \/ capReleased) /\ CaptureReadFail
    \/ CaptureCheck
    \/ CaptureGet
    \/ CapturePut

ProcessStep ==
    \/ ProcessLoop
    \/ ProcessGet
    \/ ProcessTimeout
    \/ ProcessPut

MainStep ==
    \/ MainStart
    \/ \E dt \in DtChoices(RegDts) : MainCycle(dt)
    \/ MainSleep
    \/ MainFinally
    \/ MainExport(TRUE)
    \/ MainRelease
    \/ ~StreamEnded /\ SimpleCycle(S7(1000))
    \/ StreamEnded /\ SimpleEndOfStream
    \/ SimpleKeys("none")

\* the steps of main_loop / run other than the start of a cycle
MainOther ==
    \/ MainStart
    \/ MainSleep
    \/ MainFinally
    \/ MainExport(TRUE)
    \/ MainRelease
    \/ StreamEnded /\ SimpleEndOfStream
    \/ SimpleKeys("none")

\* main_loop is at a dequeue that succeeds, or run at a read that returns a
\* frame: MainCycle or SimpleCycle is enabled
MainCanCycle ==
    /\ mpc = "loop"
    /\ \/ variant \in Threaded /\ running /\ result_queue # <<>>
       \/ variant = "simple" /\ ~StreamEnded

NextShutdown ==
    \/ CaptureStep
    \/ ProcessStep
    \/ MainStep
    \/ MainTimeout
    \/ MainInterrupt

SpecShutdown ==
    /\ InitNoFile
    /\ [][NextShutdown]_vars
    /\ WF_vars(CaptureStep)
    /\ WF_vars(ProcessStep)
    /\ WF_vars(MainOther)
    \* a cycle leaves mpc = "loop", so weak fairness of the cycle is: it is
    \* not enabled forever
    /\ []<>~MainCanCycle

\* the acquisition loop is over: capture_thread returned, or run left its
\* while loop
AcquisitionEnded ==
    IF variant = "simple" THEN mpc \in {"export", "release", "done"}
    ELSE cpc = "exit"

\* C12 (as claimed): once the source is exhausted the acquisition loop
\* eventually terminates, in the threaded trackers without anybody raising
\* the shutdown signal.
C12_EndOfStreamEndsAcquisition == StreamEnded ~> AcquisitionEnded

\* C13 (as claimed): once the source is exhausted and both queues have
\* drained, the orchestrator eventually leaves its loop and export_history
\* is invoked.
C13_ExhaustionBeginsShutdown ==
    (StreamEnded /\ frame_queue = <<>> /\ result_queue = <<>>)
        ~> (mpc \in {"export", "release", "done"} /\ exports # <<>>)

\* the shutdown signal of the threaded trackers: main_loop's finally clause
\* has set self.running = False
ShutdownRaised ==
    variant \in Threaded /\ ~running /\ mpc \in {"export", "release", "done"}

\* C15: once running is False, capture_thread and process_thread eventually
\* return; from then on capture_thread does not come back to cap.read (it
\* pulls at most the frame of a read it was already in) and process_thread
\* does not come back to frame_queue.get (at most the dequeue or timeout of
\* a get it was already in).
C15_WorkersStopAfterShutdown ==
    /\ ShutdownRaised ~> (cpc = "exit" /\ ppc = "exit")
    /\ [][ShutdownRaised =>
            /\ (cpc' = "read" => cpc = "read")
            /\ (ppc' = "get" => ppc = "get")
            /\ (nread' # nread => cpc = "read")]_vars

\* both workers have returned after a shutdown that came while frames were
\* still to be read
C15_Witness ==
    /\ ShutdownRaised
    /\ cpc = "exit"
    /\ ppc = "exit"
    /\ mainExc = "KeyboardInterrupt"
    /\ nread >= 1
    /\ ~StreamEnded

(***************************************************************************)
(* The stop specification: main_loop of the threaded trackers on every way *)
(* out of its loop: Ctrl+C, RuntimeError out of broadcast (a consumer      *)
(* connects during a send), KeyError out of update_history (a              *)
(* marker_config.json without 'default').                                  *)
(***************************************************************************)
InitStop == InitWith({BuiltinConfig, FileConfigNoDefault}) /\ variant \in Threaded

FeedStop ==
    \E m \in RegSnaps :
        /\ mpc = "loop"
        /\ result_queue = <<>>
        /\ cycles < MaxRegCycles
        /\ PublishResult(m)

NextStop ==
    \/ MainStart
    \/ FeedStop
    \/ \E dt \in DtChoices(RegDts) : MainCycle(dt)
    \/ MainTimeout
    \/ BroadcastStep
    \/ MainSleep
    \/ MainInterrupt
    \/ MainInterruptSend
    \/ MainFinally
    \/ \E ok \in BOOLEAN : MainExport(ok)
    \/ MainRelease
    \/ \E w \in WS : w <= MaxStopSockets /\ Connect(w)
    \/ \E w \in WS : Close(w)
    \/ \E w \in WS : HandlerResume(w)

SpecStop == InitStop /\ [][NextStop]_vars

\* C14: whichever way main_loop stops, export_history is invoked exactly
\* once: no export while the loop runs, one from the finally clause on, made
\* after the last update_history call and before cap.release(), and no
\* broadcast is in progress or begins after it.
C14_ExportOnceAtStop ==
    /\ Len(exports) <= 1
    /\ (mpc \in {"release", "done"}) <=> (Len(exports) = 1)
    /\ capReleased => (Len(exports) = 1 /\ mpc = "done")
    /\ exports # <<>> =>
          /\ exports[1].nrec = nrec
          /\ exports[1].ok => exports[1].log = design_history
          /\ mpc # "bcast"
          /\ bcCur = NoSock
    /\ mpc = "done" => (capReleased /\ ~running)

\* main_loop was ended by the RuntimeError of a broadcast, after a recorder
\* invocation, and has exported and released
C14_Witness ==
    /\ mpc = "done"
    /\ mainExc = "RuntimeError"
    /\ nrec >= 1
    /\ Len(exports) = 1
    /\ capReleased

\* the same for the KeyError of update_history
C14_WitnessKeyError ==
    /\ mpc = "done"
    /\ mainExc = "KeyError"
    /\ Len(exports) = 1

(***************************************************************************)
(* The verdict of a change gate.                                           *)
(***************************************************************************)
\* the cases in which a gate is said to pass: the counts differ, or an entity
\* of the candidate is not in the reference, or a common entity moved or
\* turned by more than the gate's threshold
GateCases(markers, ref, pos_th, rot_th) ==
    \/ Cardinality(DOMAIN markers) # Cardinality(DOMAIN ref)
    \/ \E id \in DOMAIN markers : id \notin DOMAIN ref
    \/ \E id \in DOMAIN markers \cap DOMAIN ref :
          \/ QGtInt(pos_change(markers[id], ref[id]), pos_th)
          \/ rot_change(markers[id], ref[id]) > rot_th

\* C16: in every cycle, should_update_history returned True exactly in the
\* cases above (candidate: the raw snapshot; reference: last_states), and so
\* did should_broadcast of the threaded trackers (candidate: the payload);
\* hence one entity over the pos threshold passes the gate whatever the other
\* entities did.
C16_GatePassesIffChanged ==
    lastCyc.n >= 1 =>
        /\ lastCyc.hist <=>
              GateCases(QMarkers(lastCyc.markers), lastCyc.ref,
                        HistPos(variant), HistRot(variant))
        /\ (variant \in Threaded /\ mainExc # "KeyError") =>
              (lastCyc.bcast <=>
                  GateCases(lastCyc.payload, lastCyc.ref,
                            BcastPos(variant), BcastRot(variant)))

\* a cycle with two entities, both known: 8 moved by more than every
\* threshold, 7 did not move at all, and both gates passed
C16_Witness ==
    /\ lastCyc.n >= 2
    /\ lastCyc.markers = S78(1000, 20)
    /\ lastCyc.ref = S78(1000, 0)
    /\ lastCyc.hist
    /\ variant \in Threaded => lastCyc.bcast

(***************************************************************************)
(* The reference of the gates in the threaded trackers.                    *)
(***************************************************************************)
\* C17: in the threaded trackers every step that changes last_states belongs
\* to a cycle whose should_broadcast returned True, and stores the raw
\* snapshot of that cycle; a cycle whose broadcast gate suppressed leaves
\* last_states as it was.
C17_ReferenceStoredOnBroadcastOnly ==
    [][(variant \in Threaded /\ last_states' # last_states) =>
          (lastCyc'.bcast /\ last_states' = lastCyc'.markers)]_vars

\* a snapshot was stored, and then a cycle with a different snapshot was
\* suppressed by the broadcast gate and left the reference alone
C17_Witness ==
    /\ variant \in Threaded
    /\ CycleDone
    /\ lastCyc.n >= 2
    /\ ~lastCyc.bcast
    /\ prevCyc.bcast
    /\ lastCyc.markers # prevCyc.markers
    /\ last_states = prevCyc.markers
    /\ last_states # EmptyMarkers

(***************************************************************************)
(* The order in which results reach main_loop.                             *)
(***************************************************************************)
\* C18: in the threaded trackers each result dequeued by main_loop was
\* captured strictly later than the result dequeued before it, under every
\* interleaving of the three loops and whatever the queues dropped.
C18_DequeuedInCaptureOrder ==
    (variant \in Threaded /\ lastCyc.n >= 2) => prevCyc.ts < lastCyc.ts

\* main_loop dequeued two results that had been waiting in result_queue
\* together, and a frame captured between them never arrived
C18_Witness ==
    /\ variant \in Threaded
    /\ lastCyc.n >= 2
    /\ lastCyc.ts > prevCyc.ts + 1

\* main_loop dequeued a result while a later one was already queued behind it
C18_WitnessQueued ==
    /\ variant \in Threaded
    /\ lastCyc.n >= 1
    /\ result_queue # <<>>
    /\ Head(result_queue).timestamp > lastCyc.ts

(***************************************************************************)
(* The session specification: each tracker from its construction, with any *)
(* marker_config.json, fed snapshots one at a time with no consumer        *)
(* connected, and every key of SimplifiedTracker.run.                      *)
(***************************************************************************)
SessionSnaps == {EmptyMarkers, S7(1000), S78(1000, 0)}

FeedSession ==
    \E m \in SessionSnaps :
        /\ mpc = "loop"
        /\ result_queue = <<>>
        /\ cycles < MaxCycles
        /\ PublishResult(m)

NextSession ==
    \/ MainStart
    \/ FeedSession
    \/ \E dt \in DtChoices(RegDts) : MainCycle(dt)
    \/ MainSleep
    \/ MainInterrupt
    \/ MainFinally
    \/ \E ok \in BOOLEAN : MainExport(ok)
    \/ MainRelease
    \/ \E m \in SessionSnaps : cycles < MaxCycles /\ SimpleCycle(m)
    \/ SimpleEndOfStream
    \/ \E key \in {"none", "q", "s"} : SimpleKeys(key)
    \/ \E ok \in BOOLEAN : SimpleExportKey(ok)
    \/ \E file \in ConfigFiles : SimpleReloadKey(file)

SpecSession == InitSession /\ [][NextSession]_vars

\* load_config ended in its except clause: at construction (self.config is
\* the built-in default, or was never assigned) or on the reload key
LoadFailed ==
    \/ config \in {BuiltinConfig, NoConfig}
    \/ mainExc = "SystemExit"

\* C19 (as claimed): after a failed load_config the process goes on, with a
\* configuration that has a 'default' payload, and what was recorded is not
\* lost.
C19_LoadFailureNeverStops ==
    LoadFailed =>
        /\ mpc # "exited"
        /\ "default" \in DOMAIN config

\* the reload key ended a session that had recorded, and nothing was exported
C19_ReloadLosesHistory ==
    /\ variant = "simple"
    /\ mpc = "exited"
    /\ nrec >= 1
    /\ exports = <<>>

\* the threaded trackers after a failed load: running on the built-in default
C19_ThreadedFallback ==
    /\ variant \in Threaded
    /\ config = BuiltinConfig
    /\ nrec >= 1

(***************************************************************************)
(* Export on demand.                                                       *)
(***************************************************************************)
\* the frame indexes a log has entries for
LogIndexes(log) == UNION {DOMAIN log[s] : s \in DOMAIN log}

\* every entry of log is in hist, with the same value
SubLog(log, hist) ==
    \A s \in DOMAIN log :
        /\ s \in DOMAIN hist
        /\ \A k \in DOMAIN log[s] :
              /\ k \in DOMAIN hist[s]
              /\ hist[s][k] = log[s][k]

\* C20: an export_history call leaves design_history, frame_count and
\* last_states as they were, whether its write succeeds or fails; a written
\* log is design_history as it was at the call, with entries for exactly the
\* frame indexes of the completed update_history calls; and every log written
\* stays part of design_history while later update_history calls append.
C20_ExportOnDemandSafe ==
    /\ [][Len(exports') > Len(exports) =>
            /\ UNCHANGED recVars
            /\ LET e == exports'[Len(exports')]
               IN  e.ok =>
                     /\ e.log = design_history
                     /\ LogIndexes(e.log) =
                           {history_key(k) : k \in 0..(frame_count - 1)}]_vars
    /\ [](\A i \in 1..Len(exports) :
             exports[i].ok => SubLog(exports[i].log, design_history))

\* the 'e' key wrote a log with entries, and update_history has appended to
\* design_history since
C20_Witness ==
    /\ variant = "simple"
    /\ \E i \in 1..Len(exports) :
          /\ exports[i].ok
          /\ exports[i].log # [s \in {} |-> 0]
          /\ exports[i].nrec < nrec
          /\ exports[i].log # design_history

\* the 'e' key's write failed after update_history calls, and run went on
C20_WitnessFailedWrite ==
    /\ variant = "simple"
    /\ mpc = "loop"
    /\ \E i \in 1..Len(exports) : ~exports[i].ok /\ exports[i].nrec >= 1

(***************************************************************************)
(* The constant-velocity specification: the scrap tracker is given one     *)
(* entity whose raw position advances by the same amount in every          *)
(* snapshot, with the same dt between its cycles.                          *)
(***************************************************************************)
\* the advance per snapshot, in 0.001
Advances == {1, 2, 4, 8}

\* the dt between two cycles, in ms: inside the prediction window
LinearDts == {20, 50}

InitLinear == InitNoFile /\ variant = "scrap"

\* the next snapshot of the run: any advance after the first snapshot, the
\* same advance from then on
LinearSnaps ==
    IF lastCyc.n = 0 THEN {S7(1000)}
    ELSE IF lastCyc.n = 1
         THEN {S7(lastCyc.markers[7].position.z + a) : a \in Advances}
         ELSE {S7(2 * lastCyc.markers[7].position.z
                  - prevCyc.markers[7].position.z)}

\* the dt of the next cycle: any dt for the second cycle, the same from then on
LinearDtChoices ==
    IF ~has_last_update_time THEN {DefaultDt}
    ELSE IF lastCyc.n = 1 THEN LinearDts ELSE {lastCyc.dt}

FeedLinear ==
    \E m \in LinearSnaps :
        /\ mpc = "loop"
        /\ result_queue = <<>>
        /\ cycles < MaxLinearCycles
        /\ PublishResult(m)

NextLinear ==
    \/ MainStart
    \/ FeedLinear
    \/ \E dt \in LinearDtChoices : MainCycle(dt)
    \/ MainSleep
    \/ MainInterrupt
    \/ MainFinally
    \/ MainExport(TRUE)
    \/ MainRelease

SpecLinear == InitLinear /\ [][NextLinear]_vars

\* raw position plus velocity times the lookahead, the velocity being the
\* advance per snapshot over dt
LinearExtrapolation(raw, advance, dt) ==
    QAdd(QInt(raw), QScale(Q(advance, dt), PredictionTime, 1))

\* C21 (as claimed): from the third snapshot of a constant-velocity run on,
\* the position predict_marker_positions returns is the raw position plus
\* (advance / dt) * 0.02, whatever the size of the advance.
C21_ConstantVelocityExtrapolation ==
    lastCyc.n >= 3 =>
        lastCyc.payload[7].position.z =
            LinearExtrapolation(lastCyc.markers[7].position.z,
                                lastCyc.markers[7].position.z
                                    - prevCyc.markers[7].position.z,
                                lastCyc.dt)

\* the extrapolation is the claimed one in a cycle whose reference is the
\* snapshot before it and whose velocity estimate was advance / dt already
C21_HoldsAfterBroadcastCycles ==
    (/\ lastCyc.n >= 3
     /\ lastCyc.ref = prevCyc.markers
     /\ lastCyc.vel[7].z = Q(lastCyc.markers[7].position.z
                                - prevCyc.markers[7].position.z, lastCyc.dt)) =>
        lastCyc.payload[7].position.z =
            LinearExtrapolation(lastCyc.markers[7].position.z,
                                lastCyc.markers[7].position.z
                                    - prevCyc.markers[7].position.z,
                                lastCyc.dt)

\* a constant-velocity run in which that happens
C21_ConvergedRun ==
    /\ lastCyc.n >= 3
    /\ lastCyc.ref = prevCyc.markers
    /\ lastCyc.vel[7].z = Q(lastCyc.markers[7].position.z
                               - prevCyc.markers[7].position.z, lastCyc.dt)

\* C23 (as claimed): what predict_marker_positions returns and stores in a
\* cycle is what it computes from the raw snapshot of the cycle before it,
\* whether or not that snapshot was broadcast.
C23_VelocityFromPreviousRawSnapshot ==
    (variant = "scrap" /\ lastCyc.n >= 2) =>
        LET p == predict_marker_positions(lastCyc.markers, prevCyc.markers,
                                          lastCyc.vel, lastCyc.dt)
        IN  /\ lastCyc.payload = p.pred
            /\ marker_velocities = p.vel

\* a cycle whose predecessor was suppressed by the broadcast gate: the old
\* position is the one of the last broadcast snapshot, an older one
C23_OlderSnapshotUsed ==
    /\ variant = "scrap"
    /\ lastCyc.n >= 3
    /\ ~prevCyc.bcast
    /\ lastCyc.ref # prevCyc.markers
    /\ marker_velocities[7].z # lastCyc.vel[7].z

(***************************************************************************)
(* The idle specification: the threaded trackers on a source that ends     *)
(* after MaxFrames frames, with one consumer that may connect and close.   *)
(* handle_client runs on the event loop, so its steps are possible only    *)
(* while main_loop is suspended in an await; at every such point the event *)
(* loop runs the tasks that are ready, hence strong fairness for them.     *)
(***************************************************************************)
IdleSnaps == {S7(1000), S7(1020)}

CaptureIdleStep ==
    \/ CaptureLoop
    \/ \E m \in IdleSnaps : ~StreamEnded /\ CaptureRead(m, 0)
    \/ StreamEnded /\ CaptureReadFail
    \/ CaptureCheck
    \/ CaptureGet
    \/ CapturePut

HandlerStep ==
    \/ Connect(1)
    \/ HandlerResume(1)

NextIdle ==
    \/ CaptureIdleStep
    \/ ProcessStep
    \/ MainStart
    \/ \E dt \in DtChoices(RegDts) : MainCycle(dt)
    \/ BroadcastStep
    \/ MainSleep
    \/ MainTimeout
    \/ HandlerStep
    \/ Close(1)

\* the steps of main_loop other than the start of a cycle
MainIdleOther ==
    \/ MainStart
    \/ BroadcastStep
    \/ MainSleep

SpecIdle ==
    /\ InitThreads
    /\ [][NextIdle]_vars
    /\ WF_vars(CaptureIdleStep)
    /\ WF_vars(ProcessStep)
    /\ WF_vars(MainIdleOther)
    /\ []<>~MainCanCycle
    /\ SF_vars(HandlerStep)

\* no result is arriving: the source has ended and nothing is left in the
\* pipeline
NoResultsArriving ==
    /\ StreamEnded
    /\ frame_queue = <<>>
    /\ result_queue = <<>>
    /\ ppc \in {"loop", "get"}
    /\ cpc \in {"loop", "read"}

\* C22 (as claimed): while no results are arriving main_loop still reaches a
\* yield point in every cycle, so the consumer that has not been registered
\* yet is eventually added to clients by its handle_client task.
C22_IdleCyclesYield ==
    (NoResultsArriving /\ mpc = "loop" /\ sock[1] = "none")
        ~> (sock[1] # "none")

\* while results arrive, the consumer is registered during a sleep or a send
C22_RegisteredWhileResultsArrive ==
    /\ sock[1] = "open"
    /\ 1 \in clients
    /\ ~StreamEnded

(***************************************************************************)
(* The motion-skip specification: capture_thread and process_thread of the *)
(* scrap tracker on a source of MaxMotionFrames frames, each with any      *)
(* motion magnitude.                                                       *)
(***************************************************************************)
InitMotion == InitNoFile /\ variant = "scrap"

NextMotion ==
    \/ MainStart
    \/ CaptureLoop
    \/ \E a \in MotionChoices :
          nread < MaxMotionFrames /\ CaptureRead(S7(1000), a)
    \/ CaptureCheck
    \/ CaptureGet
    \/ CapturePut
    \/ ProcessLoop
    \/ ProcessGet
    \/ ProcessTimeout
    \/ ProcessPut

SpecMotion == InitMotion /\ [][NextMotion]_vars

\* capture_thread is between two frames
BetweenFrames == cpc \in {"loop", "read"}

\* the step in which capture_thread reads a frame and skips it
SkipStep == cpc = "read" /\ nread' = nread + 1 /\ cpc' = "loop"

\* the step in which capture_thread reads a frame in motion above the
\* threshold (the only frames that advance the skip counter)
HighMotionStep ==
    cpc = "read" /\ nread' = nread + 1
                 /\ frame_skip_counter' = frame_skip_counter + 1

\* C24 (as claimed): the skip counter starts over once the cap is reached:
\* a frame in high motion that follows a forwarded frame is skipped, also
\* when that forwarded frame followed max_frame_skip skipped ones.
C24_SkipCounterResetAtCap ==
    [][(HighMotionStep /\ lastFwd = nread) => SkipStep]_vars

\* sustained motion: the counter has passed the cap and the frames are
\* forwarded one after the other
C24_CounterBeyondCap ==
    /\ BetweenFrames
    /\ frame_skip_counter > max_frame_skip + 1
    /\ lastFwd = nread

\* the counter is 0 again after a frame at or below the threshold
C24_ResetWhenMotionSubsides ==
    [][(cpc = "read" /\ nread' = nread + 1 /\ last_gray
          /\ frame_skip_counter' # frame_skip_counter + 1)
            => frame_skip_counter' = 0]_vars

\* C25: capture_thread never skips more than max_frame_skip frames in a row,
\* it forwards the first two frames it reads, and the step that skips a frame
\* leaves frame_queue, and the frame queued in it, as they were.
C25_SkipBounded ==
    /\ [](BetweenFrames =>
            /\ nread - lastFwd <= max_frame_skip
            /\ nread <= 2 => lastFwd = nread)
    /\ [][SkipStep => UNCHANGED <<frame_queue, lastFwd>>]_vars

\* two frames in a row were skipped while the frame forwarded before them
\* stayed in frame_queue
C25_Witness ==
    /\ BetweenFrames
    /\ nread = lastFwd + max_frame_skip
    /\ frame_queue # <<>>
    /\ frame_queue[1].seq = lastFwd

(***************************************************************************)
(* What one recorder invocation writes.                                    *)
(***************************************************************************)
\* the pose as an entry of the log holds it
PosRotOf(pose) ==
    [x |-> pose.position.x, y |-> pose.position.y, z |-> pose.position.z,
     rx |-> pose.rotation.x, ry |-> pose.rotation.y, rz |-> pose.rotation.z]

RawPoses(id) == {m[id] : m \in {g \in GateSnaps : id \in DOMAIN g}}

\* C27: in the threaded trackers last_states is a raw snapshot, every pose in
\* the log is a raw pose of its entity, and the snapshot main_loop dequeued
\* is still the raw one after predict_marker_positions has run on it.
C27_PredictionNeverStored ==
    variant \in Threaded =>
        /\ last_states \in GateSnaps
        /\ \A id \in Ids :
              ToString(id) \in DOMAIN design_history =>
                 \A k \in DOMAIN design_history[ToString(id)] :
                    \E pose \in RawPoses(id) :
                       design_history[ToString(id)][k].posrot = PosRotOf(pose)
        /\ lastCyc.n >= 1 => (cur = lastCyc.markers /\ cur \in GateSnaps)

\* a cycle of the scrap tracker in which the broadcast pose was extrapolated
\* and the snapshot was both recorded and stored as the reference
C27_Witness ==
    /\ variant = "scrap"
    /\ CycleDone
    /\ lastCyc.n >= 2
    /\ lastCyc.hist
    /\ lastCyc.bcast
    /\ 7 \in DOMAIN lastCyc.markers
    /\ lastCyc.payload[7] # QPose(lastCyc.markers[7])
    /\ last_states = lastCyc.markers

\* C28: in a cycle of the scrap tracker the payload has the entity ids of the
\* snapshot; an entity that is not in last_states, or any entity when dt is
\* not strictly between 0 and 0.1 s, has its raw pose in the payload and the
\* velocity estimate it had before (none, if it had none).
C28_PassThrough ==
    (variant = "scrap" /\ lastCyc.n >= 1) =>
        /\ DOMAIN lastCyc.payload = DOMAIN lastCyc.markers
        /\ \A id \in DOMAIN lastCyc.markers :
              (\/ id \notin DOMAIN lastCyc.ref
               \/ ~(lastCyc.dt > 0 /\ lastCyc.dt < MaxPredictionDt)) =>
                 /\ lastCyc.payload[id] = QPose(lastCyc.markers[id])
                 /\ (id \in DOMAIN marker_velocities)
                        <=> (id \in DOMAIN lastCyc.vel)
                 /\ id \in DOMAIN lastCyc.vel =>
                        marker_velocities[id] = lastCyc.vel[id]

\* an entity that moved, has a prior sample and a velocity estimate, in a
\* cycle that came a second after the one before it
C28_Witness ==
    /\ variant = "scrap"
    /\ lastCyc.n >= 3
    /\ lastCyc.dt >= MaxPredictionDt
    /\ 7 \in DOMAIN lastCyc.markers
    /\ 7 \in DOMAIN lastCyc.ref
    /\ lastCyc.markers[7] # lastCyc.ref[7]
    /\ 7 \in DOMAIN lastCyc.vel
    /\ lastCyc.vel[7].z # <<0, 1>>

\* an entity without a prior sample next to one that is extrapolated
C28_WitnessNewEntity ==
    /\ variant = "scrap"
    /\ lastCyc.n >= 2
    /\ DOMAIN lastCyc.markers = {7, 8}
    /\ DOMAIN lastCyc.ref = {7}
    /\ lastCyc.payload[7] # QPose(lastCyc.markers[7])

(***************************************************************************)
(* The detector specification: frames in which the ArUco detector found    *)
(* entities 7 and 8 and cv2.solvePnP, called once per entity, returns a    *)
(* pose ("ok"), returns success = False ("fail") or raises ("raise").      *)
(***************************************************************************)
SolveOutcomes == {"ok", "fail", "raise"}

DetectorFrames ==
    {[poses |-> S78(1000, x), outcome |-> o] :
        x \in {0, 20}, o \in [{7, 8} -> SolveOutcomes]}

\* detect_markers(frame): the threaded trackers wrap the body of the loop over
\* the detected ids in try / except Exception: continue; SimplifiedTracker
\* has no try, so the first exception leaves detect_markers
detect_markers(v, frame) ==
    LET solved == {id \in DOMAIN frame.poses : frame.outcome[id] = "ok"}
        raising == {id \in DOMAIN frame.poses : frame.outcome[id] = "raise"}
    IN  [raised |-> (v = "simple" /\ raising # {}),
         markers |-> [id \in solved |-> frame.poses[id]]]

\* process_thread publishes what detect_markers returned for the frame
FeedDetector ==
    \E frame \in DetectorFrames :
        /\ mpc = "loop"
        /\ result_queue = <<>>
        /\ cycles < MaxCycles
        /\ PublishResult(detect_markers(variant, frame).markers)

\* one pass of SimplifiedTracker.run on such a frame: an exception out of
\* detect_markers is caught nowhere and ends run
SimpleDetectCycle(frame) ==
    LET d == detect_markers(variant, frame)
    IN  IF d.raised
        THEN /\ mpc = "loop"
             /\ variant = "simple"
             /\ nread' = nread + 1
             /\ mainExc' = "DetectorError"
             /\ mpc' = "crashed"
             /\ UNCHANGED <<staticVars, running, capReleased, captureVars,
                            procVars, frame_queue, qLogVars, result_queue, cur,
                            exports, recVars, predVars, regVars, iterVars,
                            cycVars, bcLog>>
        ELSE SimpleCycle(d.markers)

NextDetector ==
    \/ MainStart
    \/ FeedDetector
    \/ \E dt \in DtChoices(RegDts) : MainCycle(dt)
    \/ MainSleep
    \/ \E frame \in DetectorFrames :
          cycles < MaxCycles /\ SimpleDetectCycle(frame)
    \/ SimpleKeys("none")

SpecDetector == InitNoFile /\ [][NextDetector]_vars

\* C29 (as claimed): no failure of pose solving for one entity ends the loop
\* that called the detector.
C29_DetectorFailureIsolated == mainExc # "DetectorError"

\* run ended by the detector after it had recorded history; nothing exported
C29_SimpleRunEnded ==
    /\ variant = "simple"
    /\ mpc = "crashed"
    /\ mainExc = "DetectorError"
    /\ nrec >= 1
    /\ exports = <<>>

\* a threaded tracker went through a cycle on the one entity whose pose was
\* solved in a frame where the other entity's failed
C29_ThreadedPartialResult ==
    /\ variant \in Threaded
    /\ lastCyc.n >= 2
    /\ DOMAIN lastCyc.markers = {8}
    /\ DOMAIN prevCyc.markers = {7, 8}
    /\ mpc = "sleep"

(***************************************************************************)
(* The two gates of the collage tracker.                                   *)
(***************************************************************************)
\* C30: in the collage tracker a cycle in which should_update_history
\* returned True is a cycle in which should_broadcast returned True, and when
\* the cycle is over last_states is the snapshot it recorded.
C30_RecordedImpliesBroadcast ==
    (variant = "collage" /\ lastCyc.n >= 1 /\ lastCyc.hist) =>
        /\ lastCyc.bcast
        /\ CycleDone => last_states = lastCyc.markers

\* a recorded cycle in which the entities were those of the reference and one
\* of them had moved
C30_Witness ==
    /\ variant = "collage"
    /\ CycleDone
    /\ lastCyc.n >= 2
    /\ lastCyc.hist
    /\ DOMAIN lastCyc.markers = DOMAIN lastCyc.ref
    /\ lastCyc.markers # lastCyc.ref
    /\ last_states = lastCyc.markers

\* the converse does not hold: a cycle broadcast but not recorded
C30_BroadcastNotRecorded ==
    /\ variant = "collage"
    /\ lastCyc.n >= 2
    /\ lastCyc.bcast
    /\ ~lastCyc.hist

(***************************************************************************)
(* The video source after cap.release().  capture_thread is a daemon       *)
(* thread that main_loop never joins: the finally block clears running,    *)
(* exports, and releases, while capture_thread may stand between its       *)
(* `while self.running` test and the cap.read() that follows it.           *)
(***************************************************************************)
\* the step in which capture_thread calls self.cap.read()
CapReadCall == cpc = "read" /\ cpc' # "read"

\* C33: under every interleaving of capture_thread with main_loop's
\* shutdown block, no cap.read call by capture_thread begins after
\* main_loop has called cap.release.
C33_NoReadAfterRelease == [][CapReadCall => ~capReleased]_vars

\* capture_thread has passed its running test and main_loop has released
\* the source: the next capture step is a cap.read() on a released source
C33_ReadPendingAfterRelease == capReleased /\ cpc = "read" /\ ~running

(***************************************************************************)
(* The quiet specification: a threaded tracker with consumers that connect *)
(* and close, fed snapshots of one marker that rests, creeps by less than  *)
(* either broadcast threshold, or jumps past every threshold.              *)
(***************************************************************************)
QuietSnaps == {S7(1000), S7(1002), S7(1020)}

FeedQuiet ==
    \E m \in QuietSnaps :
        /\ mpc = "loop"
        /\ result_queue = <<>>
        /\ cycles < MaxCycles
        /\ PublishResult(m)

NextQuiet ==
    \/ MainStart
    \/ FeedQuiet
    \/ \E dt \in DtChoices(RegDts) : MainCycle(dt)
    \/ BroadcastStep
    \/ MainSleep
    \/ MainFinally
    \/ MainExport(TRUE)
    \/ MainRelease
    \/ \E w \in WS : w <= MaxStopSockets /\ Connect(w)
    \/ \E w \in WS : Close(w)
    \/ \E w \in WS : HandlerResume(w)

SpecQuiet == InitThreads /\ [][NextQuiet]_vars

\* the step is an orchestrator cycle in which should_update_history and
\* should_broadcast both returned False
SuppressedCycle ==
    /\ variant \in Threaded
    /\ cycles' = cycles + 1
    /\ ~lastCyc'.hist
    /\ ~lastCyc'.bcast

\* C31: an orchestrator cycle in which both gates suppress leaves
\* last_states, design_history, frame_count and clients unchanged and sends
\* nothing to any consumer (no broadcast begins, main_loop goes straight to
\* its sleep); only the Smoother's state may change.
C31_SuppressedCycleIsSilent ==
    [][SuppressedCycle =>
          /\ UNCHANGED <<last_states, design_history, frame_count, clients>>
          /\ UNCHANGED <<bcLog, iterVars, exports, mainExc>>
          /\ mpc' = "sleep"]_vars

\* a suppressed cycle has just run on a snapshot that differs from the
\* stored one, with a consumer registered: the stored snapshot is the one
\* the cycle found, and no broadcast has ever begun
C31_Witness ==
    /\ variant \in Threaded
    /\ mpc = "sleep"
    /\ lastCyc.n >= 2
    /\ ~lastCyc.hist
    /\ ~lastCyc.bcast
    /\ lastCyc.markers # last_states
    /\ last_states # EmptyMarkers
    /\ last_states = lastCyc.ref
    /\ clients # {}
    /\ bcLog = NoBroadcast

\* the same in the scrap tracker, where the cycle changed the velocities
C31_SmootherMoved ==
    /\ C31_Witness
    /\ variant = "scrap"
    /\ marker_velocities # lastCyc.vel

(***************************************************************************)
(* What a broadcast-gate pass stores, and what a late consumer receives.   *)
(***************************************************************************)
\* after a completed cycle whose broadcast gate passed, last_states is the
\* cycle's raw snapshot
PassStored ==
    (variant \in Threaded /\ CycleDone /\ lastCyc.n >= 1 /\ lastCyc.bcast)
        => last_states = lastCyc.markers

\* the step delivers a tracking_update to consumer w
Delivers(w) == w \in bcLog'.delivered /\ w \notin bcLog.delivered

\* a delivery is a send of the broadcast that the current cycle began because
\* its gate passed, made before that cycle replaces last_states
DeliveryNeedsPass ==
    \A w \in WS :
        (variant \in Threaded /\ Delivers(w))
            => /\ lastCyc.bcast
               /\ cur = lastCyc.markers
               /\ last_states = lastCyc.ref
               /\ w \in clients

\* C32: a broadcast-gate pass replaces last_states with the cycle's raw
\* snapshot whether or not a consumer is registered and whether or not a
\* delivery succeeds; a consumer that registers afterwards is sent nothing
\* until a later snapshot passes the broadcast gate.
C32_PassStoredLateConsumerWaits == []PassStored /\ [][DeliveryNeedsPass]_vars

\* the gate passed with the stored snapshot, a consumer registered after it,
\* and the next cycle, on the same snapshot, was suppressed: the consumer is
\* registered and no broadcast has ever begun
C32_Witness ==
    /\ variant \in Threaded
    /\ mpc = "sleep"
    /\ lastCyc.n >= 2
    /\ prevCyc.bcast
    /\ ~lastCyc.bcast
    /\ lastCyc.markers = prevCyc.markers
    /\ last_states = prevCyc.markers
    /\ clients # {}
    /\ bcLog = NoBroadcast

\* a pass whose every delivery failed stored its snapshot all the same
C32_AllSendsFailed ==
    /\ variant \in Threaded
    /\ CycleDone
    /\ lastCyc.bcast
    /\ bcLog.finished
    /\ bcLog.start # {}
    /\ bcLog.delivered = {}
    /\ last_states = lastCyc.markers
    /\ lastCyc.markers # lastCyc.ref

\* after such a pass another consumer registered and the next cycle, on the
\* same snapshot, was suppressed
C32_LateConsumerAfterFailure ==
    /\ variant \in Threaded
    /\ mpc = "sleep"
    /\ prevCyc.bcast
    /\ ~lastCyc.bcast
    /\ lastCyc.markers = prevCyc.markers
    /\ bcLog.finished
    /\ bcLog.start # {}
    /\ bcLog.delivered = {}
    /\ clients # {}
    /\ clients \cap bcLog.start = {}

====
